---- MODULE Spec2Model ----
(***************************************************************************)
(* Model of the indexers package of go-commons: the Elastic and OpenSearch *)
(* indexers (src/indexers/elastic.go).  Both types have the same code and  *)
(* differ in the error texts only; the variable backend selects the type.  *)
(*                                                                         *)
(*   SpecNew : new(), one action per request sent to the cluster           *)
(*   Spec    : Index(), one action per step of the calling goroutine and   *)
(*             one per step of the bulk indexer's workers                  *)
(***************************************************************************)
EXTENDS Integers, Sequences, FiniteSets

\* ------------------------------------------------------------------ bounds
MaxDocs == 3        \* longest documents slice handed to Index
NumWorkers == 2     \* runtime.NumCPU() of the model's machine
MaxNameLen == 2     \* longest configured index name

VARIABLES
    backend,        \* "elastic" | "opensearch": the receiver's type
    \* ---- new()
    cfgIndex,       \* indexerConfig.Index, a sequence of characters
    index,          \* the indexer's index field
    index0,         \* value of the index field when new() was entered
    npc,            \* position of new()
    calls,          \* upstream calls made by new(), with their answers
    newRet,         \* error returned by new()
    \* ---- Index()
    documents,      \* the documents argument
    pc,             \* position of Index()
    i,              \* loop position in documents (1-based)
    hasher,         \* bytes written to the sha256 hasher since its last Reset
    docHash,        \* the docHash map's keys
    redundantSkipped,
    biState,        \* bulk indexer: "none" | "open" | "closed"
    added,          \* items handed to bi.Add, in order
    queue,          \* items in the bulk indexer not yet taken by a worker
    workers,        \* state of each worker of the bulk indexer
    lock,           \* holder of indexerStatsLock, 0 when free
    indexerStats,   \* the indexerStats map (0: key absent)
    cbCount,        \* per result, OnSuccess callbacks invoked by the workers
    events,         \* upstream steps performed by Index, with their outcome
    ret             \* what Index returned: [summary, err]

newVars == <<cfgIndex, index, index0, npc, calls, newRet>>
indexVars == <<documents, pc, i, hasher, docHash, redundantSkipped, biState,
               added, queue, workers, lock, indexerStats, cbCount, events, ret>>
vars == <<backend, newVars, indexVars>>

Backends == {"elastic", "opensearch"}

\* ------------------------------------------------------------------ errors
\* An error value: the text of the fmt.Errorf format, the wrapped upstream
\* error, the %d argument and the index name argument.
Err(msg, detail, code) == [msg |-> msg, detail |-> detail, code |-> code, name |-> <<>>]
NilErr == Err("nil", "", 0)

\* The name the error texts give the backend.
BackendName(b) == IF b = "elastic" THEN "ES" ELSE "OpenSearch"

\* ----------------------------------------------------------------- strings
NameChars == {"a", "A", "B"}

LowerChar(c) == CASE c = "A" -> "a"
                  [] c = "B" -> "b"
                  [] OTHER   -> c

\* strings.ToLower
ToLower(s) == [k \in 1..Len(s) |-> LowerChar(s[k])]

SeqsUpTo(S, n) == UNION {[1..k -> S] : k \in 0..n}


\* ------------------------------------------------------------------- new()
\* An upstream call and its answer: err is the Go error ("nil" when none),
\* status the response's StatusCode (0 when the response is nil).
Call(req, err, status) == [req |-> req, err |-> err, status |-> status]

ClientAnswers == {Call("client", "nil", 0), Call("client", "cannot create client", 0)}
HealthAnswers == {Call("health", "connection refused", 0)}
                 \cup {Call("health", "nil", st) : st \in {200, 400, 504}}
ExistsAnswers == {Call("exists", "connection refused", 0)}
                 \cup {Call("exists", "nil", st) : st \in {200, 404}}
CreateAnswers == {Call("create", "connection refused", 0)}
                 \cup {Call("create", "nil", st) : st \in {200, 400}}

\* The index field of the indexer the tests run new() on, and of a fresh one.
OldIndex == <<"t">>

\* if indexerConfig.Index == ""
NameMissing(name) == name = <<>>

\* A health check that accepts every status.
HealthRejectedNever(status) == FALSE

\* if r.StatusCode != 200
HealthRejected(status) == status # 200

\* An error test that takes only server errors for errors.
IsErrorServerOnly(status) == status >= 500

\* r.IsError() of the vendor response: a status above 299.
IsError(status) == status > 299

InitNew ==
    /\ backend \in Backends
    /\ cfgIndex \in SeqsUpTo(NameChars, MaxNameLen)
    /\ index0 \in {<<>>, OldIndex}
    /\ index = index0
    /\ npc = "entry"
    /\ calls = <<>>
    /\ newRet = NilErr
    /\ documents = <<>> /\ pc = "idle" /\ i = 0 /\ hasher = <<>> /\ docHash = {}
    /\ redundantSkipped = 0 /\ biState = "none" /\ added = <<>> /\ queue = <<>>
    /\ workers = <<>> /\ lock = 0 /\ indexerStats = <<>> /\ cbCount = <<>>
    /\ events = <<>> /\ ret = <<>>

NewReturn(e) == npc' = "done" /\ newRet' = e

\* Lines 52-64: the name check and the creation of the client.
NewClient ==
    /\ npc = "entry"
    /\ UNCHANGED <<backend, cfgIndex, index, index0, indexVars>>
    /\ IF NameMissing(cfgIndex)
       THEN /\ NewReturn(Err("index name not specified", "", 0))
            /\ UNCHANGED calls
       ELSE \E a \in ClientAnswers :
            /\ calls' = Append(calls, a)
            /\ IF a.err # "nil"
               THEN NewReturn(Err("error creating the " \o BackendName(backend)
                                  \o " client: %s", a.err, 0))
               ELSE npc' = "health" /\ UNCHANGED newRet

\* Lines 65-72: the cluster health call, its two checks, the index field.
NewHealth ==
    /\ npc = "health"
    /\ UNCHANGED <<backend, cfgIndex, index0, indexVars>>
    /\ \E a \in HealthAnswers :
        /\ calls' = Append(calls, a)
        /\ IF a.err # "nil"
           THEN /\ NewReturn(Err(BackendName(backend) \o " health check failed: %s",
                                 a.err, 0))
                /\ UNCHANGED index
           ELSE IF HealthRejected(a.status)
           THEN /\ NewReturn(Err("unexpected " \o BackendName(backend)
                                 \o " status code: %d", "", a.status))
                /\ UNCHANGED index
           ELSE /\ index' = ToLower(cfgIndex)
                /\ npc' = "exists"
                /\ UNCHANGED newRet

\* Lines 73-74 and 80: the existence check.  Its error is dropped; with a nil
\* response r.IsError() dereferences nil and new() panics.
NewExists ==
    /\ npc = "exists"
    /\ UNCHANGED <<backend, cfgIndex, index, index0, indexVars>>
    /\ \E a \in ExistsAnswers :
        /\ calls' = Append(calls, a)
        /\ IF a.err # "nil"
           THEN npc' = "panic" /\ UNCHANGED newRet
           ELSE IF IsError(a.status)
           THEN npc' = "create" /\ UNCHANGED newRet
           ELSE NewReturn(NilErr)

\* Lines 75-80: the creation of the index.
NewCreate ==
    /\ npc = "create"
    /\ UNCHANGED <<backend, cfgIndex, index, index0, indexVars>>
    /\ \E a \in CreateAnswers :
        /\ calls' = Append(calls, a)
        /\ IF a.err # "nil"
           THEN npc' = "panic" /\ UNCHANGED newRet
           ELSE IF IsError(a.status)
           THEN NewReturn([Err("error creating index %s on " \o BackendName(backend)
                                   \o ": %s", "response", a.status)
                               EXCEPT !.name = ToLower(cfgIndex)])
           ELSE NewReturn(NilErr)

NextNew == NewClient \/ NewHealth \/ NewExists \/ NewCreate

SpecNew == InitNew /\ [][NextNew]_vars

\* ------------------------------------------------------------ documents
\* A document: a number, a boolean (v is 0 or 1) or a channel, the value the
\* tests use as the one json.Marshal cannot encode.
Num(n) == [t |-> "num", v |-> n]
Bool(b) == [t |-> "bool", v |-> b]
Chan == [t |-> "chan", v |-> 0]

Docs == {Num(1), Num(11), Bool(0), Chan}

\* Decimal digits of n, as ASCII bytes.
RECURSIVE Digits(_)
Digits(n) == IF n < 10 THEN <<48 + n>> ELSE Digits(n \div 10) \o <<48 + (n % 10)>>

\* json.Marshal: [ok, bytes].
Marshal(d) ==
    CASE d.t = "num"  -> [ok |-> TRUE, bytes |-> Digits(d.v)]
      [] d.t = "bool" -> [ok |-> TRUE,
                          bytes |-> IF d.v = 1 THEN <<116, 114, 117, 101>>
                                               ELSE <<102, 97, 108, 115, 101>>]
      [] OTHER        -> [ok |-> FALSE, bytes |-> <<>>]

\* hasher.Sum(nil): the digest of everything written since the last Reset.
\* SHA-256 is taken collision free: the digest determines the padded message,
\* the bytes followed by their length.
Sum(h) == h \o <<Len(h)>>

HexDigit(n) == <<"0", "1", "2", "3", "4", "5", "6", "7",
                 "8", "9", "a", "b", "c", "d", "e", "f">>[n + 1]

\* hex.EncodeToString
RECURSIVE EncodeToString(_)
EncodeToString(bs) ==
    IF bs = <<>> THEN <<>>
    ELSE <<HexDigit(bs[1] \div 16), HexDigit(bs[1] % 16)>> \o EncodeToString(Tail(bs))

\* The content hash of a body alone.
ContentHash(body) == EncodeToString(Sum(body))

\* ----------------------------------------------------------------- Index()
\* Result values the search engine reports for an indexed item.
Results == {"created", "updated"}

Workers == 1..NumWorkers
Idle == [st |-> "idle", res |-> "none", tmp |-> 0]

\* The summary strings of Index.
EmptySummary == [kind |-> "empty", ndocs |-> 0, stats |-> {}, redundant |-> 0]
SkippedSummary(n) == [kind |-> "skipped", ndocs |-> n, stats |-> {}, redundant |-> 0]
\* Lines 140-146: one " stat=val" per key of the map, then redundantskipped
\* when it is positive (a redundant of 0 stands for the absent part).
FinishedSummary(stats, skipped) ==
    [kind |-> "finished", ndocs |-> 0,
     stats |-> {<<r, stats[r]>> : r \in {x \in Results : stats[x] > 0}},
     redundant |-> skipped]

Event(step, at, ok) == [step |-> step, at |-> at, ok |-> ok]

\* A loop that drops the error of bi.Add.
AddFailedIgnored(e) == FALSE

\* if err != nil, after bi.Add
AddFailed(e) == e # "nil"

\* The hasher after the `continue` of a redundant document: no Reset is made.
HasherAfterSkip(h) == h

\* A callback that does not wait for the lock.
LockFreeAlways == TRUE

\* indexerStatsLock.Lock() goes through when nobody holds the lock.
LockFree == lock = 0

\* bi.Close returns nil once the queue is drained and every worker, with the
\* callbacks it runs, has finished.
CloseReturns == queue = <<>> /\ \A w \in Workers : workers[w].st = "idle"

Return(summary, e) == pc' = "done" /\ ret' = [summary |-> summary, err |-> e]

Init ==
    /\ backend \in Backends
    /\ cfgIndex = <<"a">> /\ index = <<"a">> /\ index0 = <<>>
    /\ npc = "done" /\ calls = <<>> /\ newRet = NilErr
    /\ documents \in SeqsUpTo(Docs, MaxDocs)
    /\ pc = "entry"
    /\ i = 0
    /\ hasher = <<>>
    /\ docHash = {}
    /\ redundantSkipped = 0
    /\ biState = "none"
    /\ added = <<>>
    /\ queue = <<>>
    /\ workers = [w \in Workers |-> Idle]
    /\ lock = 0
    /\ indexerStats = [r \in Results |-> 0]
    /\ cbCount = [r \in Results |-> 0]
    /\ events = <<>>
    /\ ret = [summary |-> EmptySummary, err |-> NilErr]

\* Lines 85-105: the empty-input return and the creation of the bulk indexer.
IndexBegin ==
    /\ pc = "entry"
    /\ UNCHANGED <<backend, newVars, documents, docHash, redundantSkipped, added,
                   queue, workers, lock, indexerStats, cbCount>>
    /\ IF Len(documents) <= 0
       THEN /\ Return(SkippedSummary(Len(documents)), NilErr)
            /\ UNCHANGED <<i, hasher, biState, events>>
       ELSE \E e \in {"nil", "invalid config"} :
            /\ events' = Append(events, Event("create", 0, e = "nil"))
            /\ IF e # "nil"
               THEN /\ Return(EmptySummary, Err("Error creating the indexer: %s", e, 0))
                    /\ UNCHANGED <<i, hasher, biState>>
               ELSE /\ biState' = "open"
                    /\ hasher' = <<>>
                    /\ i' = 1
                    /\ pc' = "loop"
                    /\ UNCHANGED ret

\* Lines 106-135: one iteration of the loop over the documents.
IndexDoc ==
    /\ pc = "loop"
    /\ i <= Len(documents)
    /\ UNCHANGED <<backend, newVars, documents, biState, workers, lock,
                   indexerStats, cbCount>>
    /\ LET j == Marshal(documents[i])
           written == hasher \o j.bytes
           docId == EncodeToString(Sum(written))
           next == IF i + 1 > Len(documents) THEN "close" ELSE "loop"
       IN  IF ~j.ok
           THEN /\ events' = Append(events, Event("encode", i, FALSE))
                /\ Return(EmptySummary, Err("Cannot encode document %s: %s",
                                            "unsupported type", 0))
                /\ UNCHANGED <<i, hasher, docHash, redundantSkipped, added, queue>>
           ELSE IF docId \in docHash
           THEN /\ events' = Append(events, Event("encode", i, TRUE))
                /\ hasher' = HasherAfterSkip(written)
                /\ redundantSkipped' = redundantSkipped + 1
                /\ i' = i + 1
                /\ pc' = next
                /\ UNCHANGED <<docHash, added, queue, ret>>
           ELSE \E e \in {"nil", "context canceled"} :
                /\ events' = events \o <<Event("encode", i, TRUE),
                                          Event("add", i, e = "nil")>>
                /\ IF AddFailed(e)
                   THEN /\ Return(EmptySummary,
                                  Err("Unexpected " \o BackendName(backend)
                                      \o " indexing error: %s", e, 0))
                        /\ hasher' = written
                        /\ UNCHANGED <<i, docHash, redundantSkipped, added, queue>>
                   ELSE /\ added' = Append(added, [body |-> j.bytes, id |-> docId])
                        /\ queue' = Append(queue, [body |-> j.bytes, id |-> docId])
                        /\ docHash' = docHash \cup {docId}
                        /\ hasher' = <<>>
                        /\ i' = i + 1
                        /\ pc' = next
                        /\ UNCHANGED <<redundantSkipped, ret>>

\* Lines 136-146: bi.Close and the summary.
IndexClose ==
    /\ pc = "close"
    /\ UNCHANGED <<backend, newVars, documents, i, hasher, docHash, redundantSkipped,
                   added, queue, workers, lock, indexerStats, cbCount>>
    /\ biState' = "closed"
    /\ \E e \in {"nil", "flush failed"} :
        /\ events' = Append(events, Event("close", 0, e = "nil"))
        /\ IF e # "nil"
           THEN Return(EmptySummary, Err("Unexpected " \o BackendName(backend)
                                         \o " error: %s", e, 0))
           ELSE /\ CloseReturns
                /\ Return(FinishedSummary(indexerStats, redundantSkipped), NilErr)

\* A worker of the bulk indexer takes an item and gets the engine's answer
\* for it: a failed item has no callback (OnFailure is not set), a successful
\* one has its OnSuccess invoked.
WorkerTake(w) ==
    /\ biState # "none"
    /\ queue # <<>>
    /\ workers[w].st = "idle"
    /\ queue' = Tail(queue)
    /\ UNCHANGED <<backend, newVars, documents, pc, i, hasher, docHash,
                   redundantSkipped, biState, added, lock, indexerStats, events, ret>>
    /\ \E r \in Results \cup {"failed"} :
        IF r = "failed"
        THEN UNCHANGED <<workers, cbCount>>
        ELSE /\ workers' = [workers EXCEPT ![w] = [st |-> "cb", res |-> r, tmp |-> 0]]
             /\ cbCount' = [cbCount EXCEPT ![r] = @ + 1]

\* Lines 124 and 126: OnSuccess takes the lock and reads the map's entry.
CallbackLock(w) ==
    /\ workers[w].st = "cb"
    /\ LockFree
    /\ lock' = w
    /\ workers' = [workers EXCEPT ![w].st = "locked",
                                  ![w].tmp = indexerStats[workers[w].res]]
    /\ UNCHANGED <<backend, newVars, documents, pc, i, hasher, docHash,
                   redundantSkipped, biState, added, queue, indexerStats, cbCount,
                   events, ret>>

\* Lines 125 and 126: OnSuccess writes the incremented entry and unlocks.
CallbackStore(w) ==
    /\ workers[w].st = "locked"
    /\ indexerStats' = [indexerStats EXCEPT ![workers[w].res] = workers[w].tmp + 1]
    /\ lock' = 0
    /\ workers' = [workers EXCEPT ![w] = Idle]
    /\ UNCHANGED <<backend, newVars, documents, pc, i, hasher, docHash,
                   redundantSkipped, biState, added, queue, cbCount, events, ret>>

Next ==
    \/ IndexBegin
    \/ IndexDoc
    \/ IndexClose
    \/ \E w \in Workers : WorkerTake(w)
    \/ \E w \in Workers : CallbackLock(w)
    \/ \E w \in Workers : CallbackStore(w)

Spec == Init /\ [][Next]_vars

\* ================================================================== claims
\* ---- helpers of the claims
FailedEvents == {k \in DOMAIN events : ~events[k].ok}
FirstFailed == CHOOSE k \in FailedEvents : \A m \in FailedEvents : k <= m

\* The error text Index gives the failure of an upstream step.
MsgOfStep(step) ==
    CASE step = "create" -> "Error creating the indexer: %s"
      [] step = "encode" -> "Cannot encode document %s: %s"
      [] step = "add"    -> "Unexpected " \o BackendName(backend) \o " indexing error: %s"
      [] OTHER           -> "Unexpected " \o BackendName(backend) \o " error: %s"

\* The count a summary reports for result r.
StatCount(summary, r) ==
    IF \E p \in summary.stats : p[1] = r
    THEN (CHOOSE p \in summary.stats : p[1] = r)[2]
    ELSE 0

\* s is name in lower case, stated character by character.
IsLowerOf(s, name) ==
    /\ Len(s) = Len(name)
    /\ \A k \in 1..Len(name) :
         \/ name[k] = "A" /\ s[k] = "a"
         \/ name[k] = "B" /\ s[k] = "b"
         \/ name[k] \notin {"A", "B"} /\ s[k] = name[k]

EarlyErrors ==
    {"index name not specified",
     "error creating the " \o BackendName(backend) \o " client: %s",
     BackendName(backend) \o " health check failed: %s",
     "unexpected " \o BackendName(backend) \o " status code: %d"}

\* C1: within one Index call no two items handed to bi.Add carry equal bodies.
C1_AtMostOncePerBody ==
    \A k, m \in DOMAIN added : k # m => added[k].body # added[m].body

\* C2: the DocumentID of every item handed to bi.Add is the content hash of
\* that item's own body alone, whatever documents preceded it.
C2_IdIsContentHash ==
    \A k \in DOMAIN added : added[k].id = ContentHash(added[k].body)

\* C3: new() checks the name, creates the client, calls the cluster health
\* and checks its status in this order, returns the error of the first check
\* that fails, and in these four cases issues no exists or create request and
\* leaves the index field as it was.
C3_FirstFailingCheck ==
    /\ \A k \in DOMAIN calls : calls[k].req = <<"client", "health", "exists", "create">>[k]
    /\ npc = "done" =>
        /\ cfgIndex = <<>> =>
             newRet.msg = "index name not specified" /\ calls = <<>>
        /\ (Len(calls) >= 1 /\ calls[1].err # "nil") =>
             /\ newRet.msg = "error creating the " \o BackendName(backend) \o " client: %s"
             /\ newRet.detail = calls[1].err
             /\ Len(calls) = 1
        /\ (Len(calls) >= 2 /\ calls[2].err # "nil") =>
             /\ newRet.msg = BackendName(backend) \o " health check failed: %s"
             /\ newRet.detail = calls[2].err
             /\ Len(calls) = 2
        /\ (Len(calls) >= 2 /\ calls[2].err = "nil" /\ calls[2].status # 200) =>
             /\ newRet.msg = "unexpected " \o BackendName(backend) \o " status code: %d"
             /\ newRet.code = calls[2].status
             /\ Len(calls) = 2
        /\ newRet.msg \in EarlyErrors =>
             /\ index = index0
             /\ \A k \in DOMAIN calls : calls[k].req \notin {"exists", "create"}

\* C3 witness: the health call answered 400 on an indexer that had an index.
C3_Witness ==
    /\ npc = "done"
    /\ newRet.msg = "unexpected ES status code: %d" /\ newRet.code = 400
    /\ index0 = OldIndex /\ index = OldIndex

\* C6: new() returns nil only if the health check answered 200 and the index
\* was reported as existing or was created; a create request follows only an
\* existence check that reported an error status; after a nil return the
\* index field is the configured name in lower case.
C6_NilOnlyIfIndexReady ==
    /\ \A k \in DOMAIN calls : calls[k].req = "create" =>
         /\ k > 1
         /\ calls[k - 1].req = "exists"
         /\ calls[k - 1].err = "nil"
         /\ calls[k - 1].status > 299
    /\ (npc = "done" /\ newRet = NilErr) =>
         /\ Len(calls) >= 3
         /\ calls[2].req = "health" /\ calls[2].err = "nil" /\ calls[2].status = 200
         /\ calls[3].req = "exists" /\ calls[3].err = "nil"
         /\ \/ calls[3].status \in 200..299 /\ Len(calls) = 3
            \/ /\ Len(calls) = 4
               /\ calls[4].req = "create" /\ calls[4].err = "nil"
               /\ calls[4].status \in 200..299
         /\ IsLowerOf(index, cfgIndex)

\* C6 witness: a name with upper-case letters, the index missing, then created.
C6_Witness ==
    /\ npc = "done" /\ newRet = NilErr
    /\ cfgIndex = <<"A", "B">> /\ index = <<"a", "b">>
    /\ Len(calls) = 4 /\ calls[3].status = 404 /\ calls[4].status = 200

\* C4: Index returns an error, with the empty summary, exactly when an
\* upstream step failed (creation of the bulk indexer, encoding of a
\* document, bi.Add, bi.Close), the error being that of the first failure;
\* otherwise it returns nil and a summary that is not empty.
C4_ErrorIffUpstreamFailure ==
    pc = "done" =>
        /\ (FailedEvents # {}) <=> (ret.err # NilErr)
        /\ (Len(documents) > 0 /\ \E k \in DOMAIN documents : ~Marshal(documents[k]).ok)
             => ret.err # NilErr
        /\ ret.err # NilErr =>
             /\ ret.summary = EmptySummary
             /\ ret.err.msg = MsgOfStep(events[FirstFailed].step)
        /\ ret.err = NilErr => ret.summary # EmptySummary

\* C4 witness: bi.Add failed for the second document after the first was added.
C4_Witness ==
    /\ pc = "done"
    /\ ret.err # NilErr /\ ret.err.detail = "context canceled"
    /\ Len(added) = 1
    /\ events[Len(events)] = Event("add", 2, FALSE)

\* C5: in the summary of a successful Index the count of every result is the
\* number of OnSuccess callbacks the workers invoked with it, and the map was
\* read with bi.Close returned and no callback running.
C5_SummaryCountsCallbacks ==
    (pc = "done" /\ ret.err = NilErr /\ ret.summary.kind = "finished") =>
        /\ \A r \in Results : StatCount(ret.summary, r) = cbCount[r]
        /\ biState = "closed"
        /\ queue = <<>>
        /\ lock = 0
        /\ \A w \in Workers : workers[w].st = "idle"

\* C5 witness: three callbacks, two of them with the same result.
C5_Witness ==
    /\ pc = "done" /\ ret.err = NilErr
    /\ cbCount["created"] = 2 /\ cbCount["updated"] = 1
    /\ StatCount(ret.summary, "created") = 2

\* C7: if Index returns the error of a document that cannot be encoded, no
\* document of the call has been handed to the bulk indexer.
C7_EncodeFailureAddsNothing ==
    (pc = "done" /\ ret.err.msg = "Cannot encode document %s: %s") => added = <<>>

\* C8: when Index has returned, a bulk indexer it created has been closed.
C8_BulkIndexerClosed ==
    (pc = "done" /\ biState # "none") => biState = "closed"

====
